---- MODULE Spec2Model ----
(***************************************************************************)
(* Model of encog-js ResilientPropagation (the RPROP family of per-weight  *)
(* adaptive step-size updates): construction, updateWeight with its five   *)
(* variant handlers, and postIteration; the weight vector the training     *)
(* loop applies the returned changes to; and DataToolbox.trainTestSpit.    *)
(*                                                                         *)
(* Real numbers (step sizes, weight changes) are exact rationals <<n, d>>  *)
(* with d > 0 in lowest terms.  The handlers read a gradient only through  *)
(* EncogMath.sign and an error only through the comparison with lastError, *)
(* so gradients are drawn from {-1, 0, 1} (-1.0, 0.0, 1.0) and errors from *)
(* {0, 1} (a lower and a higher batch error).                              *)
(***************************************************************************)
EXTENDS Integers, FiniteSets, Sequences, TLC

\* ------------------------------------------------------------------ bounds
NumWeights == 2
MaxCalls == 3
MaxLength == 8

Indexes == 1..NumWeights
Gradients == {-1, 0, 1}
Errors == {0, 1}
\* dropoutRate in percent: 0 (not dropped out) or 50 (dropped out with rate 0.5)
DropoutRates == {0, 50}

\* --------------------------------------------------------- rational numbers
Abs(x) == IF x < 0 THEN -x ELSE x

RECURSIVE GCD(_, _)
GCD(a, b) == IF b = 0 THEN a ELSE GCD(b, a % b)

Rat(n, d) == LET g == GCD(Abs(n), d) IN <<n \div g, d \div g>>

Zero == <<0, 1>>

RMul(a, b) == Rat(a[1] * b[1], a[2] * b[2])

RNeg(a) == <<-a[1], a[2]>>

\* a + b over the least common denominator
RAdd(a, b) ==
    LET g == GCD(a[2], b[2])
    IN  Rat(a[1] * (b[2] \div g) + b[1] * (a[2] \div g), (a[2] \div g) * b[2])

\* s * a for an integer s (the result of EncogMath.sign)
RScale(s, a) == Rat(s * a[1], a[2])

RSign(a) == IF a[1] > 0 THEN 1 ELSE IF a[1] < 0 THEN -1 ELSE 0

\* a/b <= c/d for a, c >= 0 and b, d > 0, by continued fractions (no products)
RECURSIVE FracLeq(_, _, _, _)
FracLeq(a, b, c, d) ==
    LET qa == a \div b
        qc == c \div d
        ra == a % b
        rc == c % d
    IN  IF qa # qc THEN qa < qc
        ELSE IF ra = 0 THEN TRUE
        ELSE IF rc = 0 THEN FALSE
        ELSE FracLeq(d, rc, b, ra)

\* a <= b on rationals of any sign
RLeq(a, b) ==
    IF a[1] < 0
    THEN IF b[1] < 0 THEN FracLeq(-b[1], b[2], -a[1], a[2]) ELSE TRUE
    ELSE IF b[1] < 0 THEN FALSE ELSE FracLeq(a[1], a[2], b[1], b[2])

\* Math.min / Math.max
RMin(a, b) == IF RLeq(a, b) THEN a ELSE b
RMax(a, b) == IF RLeq(a, b) THEN b ELSE a

\* ------------------------------------------------------- program constants
POSITIVE_ETA == <<6, 5>>
NEGATIVE_ETA == <<1, 2>>
DELTA_MIN == <<1, 1000000>>
DEFAULT_INITIAL_UPDATE == <<1, 10>>
DEFAULT_MAX_STEP == <<50, 1>>

RPROPType == {"RPROPp", "RPROPm", "iRPROPp", "iRPROPm", "ARPROP"}
\* a tag outside RPROPType, as a caller can assign to the rpropType field
UnknownType == "Unknown"

\* Number.POSITIVE_INFINITY, and a finite error value
PositiveInfinity == [inf |-> TRUE, v |-> 0]
Finite(e) == [inf |-> FALSE, v |-> e]

\* the comparison this.error > this.lastError
ErrorExceeds(e, le) == (~le.inf) /\ e > le.v

\* EncogMath.sign
Sign(x) == IF x > 0 THEN 1 ELSE IF x < 0 THEN -1 ELSE 0

\* what the free identifier q of updateJacobiWeight resolves to: neither the
\* module nor the class binds it, so it is looked up in the global environment,
\* where it has no binding unless other code of the process created one
NoBinding == [bound |-> FALSE, v |-> 0]
Binding(n) == [bound |-> TRUE, v |-> n]
GlobalBindings == {NoBinding, Binding(1)}

\* constructor arguments (initialUpdate, maxStep): the defaults; a pair whose
\* clamps are a few updates away; a pair with initialUpdate above maxStep
Configs ==
    { <<DEFAULT_INITIAL_UPDATE, DEFAULT_MAX_STEP>>,
      <<Rat(12, 10000000), Rat(13, 10000000)>>,
      <<DEFAULT_INITIAL_UPDATE, Rat(1, 20)>> }

VARIABLES
    rpropType,          \* this.rpropType
    initialUpdate,      \* the constructor's initialUpdate argument
    maxStep,            \* this.maxStep
    updateValues,       \* this.updateValues
    lastDelta,          \* this.lastDelta
    lastWeightChange,   \* this.lastWeightChange
    lastGradient,       \* the lastGradient array handed to updateWeight
    error,              \* this.error
    lastError,          \* this.lastError
    q,                  \* this.q
    globalQ,            \* the binding of the identifier q in the global environment
    weights,            \* the weight vector the returned changes are added to
    calls,              \* number of updateWeight calls made so far
    last,               \* the latest updateWeight call: arguments and outcome
    lastUpdate,         \* per index, the latest call that was not dropped out
    lastIteration,      \* the latest postIteration call and the error it saw
    dropouts,           \* the indexes the training loop dropped out since their
                        \* latest update, and whether the latest call followed one
    dataset,            \* trainTestSpit: the dataset argument
    testSize,           \* trainTestSpit: the testSize argument
    split               \* trainTestSpit: the outcome of the call

trainerVars == <<rpropType, initialUpdate, maxStep, updateValues, lastDelta,
                 lastWeightChange, lastGradient, error, lastError, q, globalQ,
                 weights, calls, last, lastUpdate, lastIteration, dropouts>>

toolboxVars == <<dataset, testSize, split>>

vars == <<trainerVars, toolboxVars>>

NoCall == [index |-> 0, gradient |-> 0, dropoutRate |-> 0, change |-> 0,
           outcome |-> "none", ret |-> Zero]

\* no call that was not dropped out has been made for the index
NoUpdate == [done |-> FALSE, change |-> 0, weightBefore |-> Zero]

\* the training loop has dropped out no index
NoDropout == [since |-> {}, before |-> FALSE]

\* no postIteration call has been made
NoIteration == [done |-> FALSE, error |-> 0]

\* trainTestSpit has not been called
NoSplit == [outcome |-> "none", train |-> <<>>, test |-> <<>>]

\* ------------------------------------------------------------- the handlers
\* Each handler is given gradients[index], lastGradient[index] and the entries
\* of the strategy's arrays at index, and yields the returned weightChange with
\* the new entries: step is updateValues[index] (lastDelta[index] for the minus
\* variants), lastGradient is lastGradient[index].

\* updateWeightPlus applying the step against the gradient's sign
UpdateWeightPlus_Descent(g, lg, uv, lwc, ms) ==
    LET change == Sign(g * lg) IN
    IF change > 0 THEN
        LET delta == RMin(RMul(uv, POSITIVE_ETA), ms) IN
        [weightChange |-> RScale(-Sign(g), delta), step |-> delta, lastGradient |-> g]
    ELSE IF change < 0 THEN
        LET delta == RMax(RMul(uv, NEGATIVE_ETA), DELTA_MIN) IN
        [weightChange |-> RNeg(lwc), step |-> delta, lastGradient |-> 0]
    ELSE
        [weightChange |-> RScale(-Sign(g), uv), step |-> uv, lastGradient |-> g]

\* updateWeightPlus keeping the gradient in lastGradient on a sign change
UpdateWeightPlus_NoReset(g, lg, uv, lwc, ms) ==
    LET change == Sign(g * lg) IN
    IF change > 0 THEN
        LET delta == RMin(RMul(uv, POSITIVE_ETA), ms) IN
        [weightChange |-> RScale(Sign(g), delta), step |-> delta, lastGradient |-> g]
    ELSE IF change < 0 THEN
        LET delta == RMax(RMul(uv, NEGATIVE_ETA), DELTA_MIN) IN
        [weightChange |-> RNeg(lwc), step |-> delta, lastGradient |-> g]
    ELSE
        [weightChange |-> RScale(Sign(g), uv), step |-> uv, lastGradient |-> g]

\* updateWeightPlus growing the step in the change == 0 branch as well
UpdateWeightPlus_GrowOnNeutral(g, lg, uv, lwc, ms) ==
    LET change == Sign(g * lg) IN
    IF change >= 0 THEN
        LET delta == RMin(RMul(uv, POSITIVE_ETA), ms) IN
        [weightChange |-> RScale(Sign(g), delta), step |-> delta, lastGradient |-> g]
    ELSE
        LET delta == RMax(RMul(uv, NEGATIVE_ETA), DELTA_MIN) IN
        [weightChange |-> RNeg(lwc), step |-> delta, lastGradient |-> 0]

\* updateWeightPlus taking nothing back on a sign change
UpdateWeightPlus_NoBacktrack(g, lg, uv, lwc, ms) ==
    LET change == Sign(g * lg) IN
    IF change > 0 THEN
        LET delta == RMin(RMul(uv, POSITIVE_ETA), ms) IN
        [weightChange |-> RScale(Sign(g), delta), step |-> delta, lastGradient |-> g]
    ELSE IF change < 0 THEN
        LET delta == RMax(RMul(uv, NEGATIVE_ETA), DELTA_MIN) IN
        [weightChange |-> Zero, step |-> delta, lastGradient |-> 0]
    ELSE
        [weightChange |-> RScale(Sign(g), uv), step |-> uv, lastGradient |-> g]

\* updateWeightPlus (RPROP+)
UpdateWeightPlus(g, lg, uv, lwc, ms) ==
    LET change == Sign(g * lg) IN
    IF change > 0 THEN
        LET delta == RMin(RMul(uv, POSITIVE_ETA), ms) IN
        [weightChange |-> RScale(Sign(g), delta), step |-> delta, lastGradient |-> g]
    ELSE IF change < 0 THEN
        LET delta == RMax(RMul(uv, NEGATIVE_ETA), DELTA_MIN) IN
        [weightChange |-> RNeg(lwc), step |-> delta, lastGradient |-> 0]
    ELSE
        [weightChange |-> RScale(Sign(g), uv), step |-> uv, lastGradient |-> g]

\* updateWeightMinus with the Math.min(delta, maxStep) of the growth branch lost
UpdateWeightMinus_NoCap(g, lg, ld, ms) ==
    LET change == Sign(g * lg)
        delta == IF change > 0
                 THEN RMul(ld, POSITIVE_ETA)
                 ELSE RMax(RMul(ld, NEGATIVE_ETA), DELTA_MIN)
    IN  [weightChange |-> RScale(Sign(g), delta), step |-> delta, lastGradient |-> g]

\* updateWeightMinus (RPROP-)
UpdateWeightMinus(g, lg, ld, ms) ==
    LET change == Sign(g * lg)
        delta == IF change > 0
                 THEN RMin(RMul(ld, POSITIVE_ETA), ms)
                 ELSE RMax(RMul(ld, NEGATIVE_ETA), DELTA_MIN)
    IN  [weightChange |-> RScale(Sign(g), delta), step |-> delta, lastGradient |-> g]

\* updateiWeightPlus backtracking on every sign change, whatever the error
UpdateiWeightPlus_AlwaysBacktrack(g, lg, uv, lwc, ms, err, lerr) ==
    LET change == Sign(g * lg) IN
    IF change > 0 THEN
        LET delta == RMin(RMul(uv, POSITIVE_ETA), ms) IN
        [weightChange |-> RScale(Sign(g), delta), step |-> delta, lastGradient |-> g]
    ELSE IF change < 0 THEN
        LET delta == RMax(RMul(uv, NEGATIVE_ETA), DELTA_MIN) IN
        [weightChange |-> RNeg(lwc), step |-> delta, lastGradient |-> 0]
    ELSE
        [weightChange |-> RScale(Sign(g), uv), step |-> uv, lastGradient |-> g]

\* updateiWeightPlus keeping the gradient in lastGradient on a sign change
UpdateiWeightPlus_NoReset(g, lg, uv, lwc, ms, err, lerr) ==
    LET change == Sign(g * lg) IN
    IF change > 0 THEN
        LET delta == RMin(RMul(uv, POSITIVE_ETA), ms) IN
        [weightChange |-> RScale(Sign(g), delta), step |-> delta, lastGradient |-> g]
    ELSE IF change < 0 THEN
        LET delta == RMax(RMul(uv, NEGATIVE_ETA), DELTA_MIN) IN
        [weightChange |-> IF ErrorExceeds(err, lerr) THEN RNeg(lwc) ELSE Zero,
         step |-> delta, lastGradient |-> g]
    ELSE
        [weightChange |-> RScale(Sign(g), uv), step |-> uv, lastGradient |-> g]

\* updateiWeightPlus (iRPROP+)
UpdateiWeightPlus(g, lg, uv, lwc, ms, err, lerr) ==
    LET change == Sign(g * lg) IN
    IF change > 0 THEN
        LET delta == RMin(RMul(uv, POSITIVE_ETA), ms) IN
        [weightChange |-> RScale(Sign(g), delta), step |-> delta, lastGradient |-> g]
    ELSE IF change < 0 THEN
        LET delta == RMax(RMul(uv, NEGATIVE_ETA), DELTA_MIN) IN
        [weightChange |-> IF ErrorExceeds(err, lerr) THEN RNeg(lwc) ELSE Zero,
         step |-> delta, lastGradient |-> 0]
    ELSE
        [weightChange |-> RScale(Sign(g), uv), step |-> uv, lastGradient |-> g]

\* updateiWeightMinus (iRPROP-): the reset of lastGradient[index] to 0 in the
\* else branch is overwritten by the unconditional assignment that follows it
UpdateiWeightMinus(g, lg, ld, ms) ==
    LET change == Sign(g * lg)
        delta == IF change > 0
                 THEN RMin(RMul(ld, POSITIVE_ETA), ms)
                 ELSE RMax(RMul(ld, NEGATIVE_ETA), DELTA_MIN)
        afterBranch == IF change > 0 THEN lg ELSE 0    \* lastGradient[index] = 0
        afterAssign == g                \* lastGradient[index] = gradients[index]
    IN  [weightChange |-> RScale(Sign(g), delta), step |-> delta,
         lastGradient |-> afterAssign]

\* updateJacobiWeight (ARPROP): the RPROP+ rule on the entries at index, then
\* the error comparison, both of whose branches use the free identifier q
\* (not this.q), which resolves to gq in the global environment.  Class bodies
\* are strict code: without a binding, reading q and assigning to q both raise
\* ReferenceError and the call ends there, returning nothing.  With a binding
\* the global is read, incremented or set to 1, and the call returns.
UpdateJacobiWeight(g, lg, uv, lwc, ms, err, lerr, gq) ==
    LET change == Sign(g * lg)
        r == IF change > 0 THEN
                 LET delta == RMin(RMul(uv, POSITIVE_ETA), ms) IN
                 [weightChange |-> RScale(Sign(g), delta), step |-> delta,
                  lastGradient |-> g]
             ELSE IF change < 0 THEN
                 LET delta == RMax(RMul(uv, NEGATIVE_ETA), DELTA_MIN) IN
                 [weightChange |-> RNeg(lwc), step |-> delta, lastGradient |-> 0]
             ELSE
                 [weightChange |-> RScale(Sign(g), uv), step |-> uv,
                  lastGradient |-> g]
    IN  IF ~gq.bound THEN
            [weightChange |-> Zero, step |-> r.step, lastGradient |-> r.lastGradient,
             globalQ |-> gq,
             raised |-> IF ErrorExceeds(err, lerr)
                        THEN "ReferenceError"    \* (1 / (2 * q)) reads q
                        ELSE "ReferenceError"]   \* q = 1 assigns q
        ELSE IF ErrorExceeds(err, lerr) THEN
            \* weightChange = (1 / (2 * q)) * delta; q++
            [weightChange |-> RMul(Rat(1, 2 * gq.v), r.step), step |-> r.step,
             lastGradient |-> r.lastGradient, globalQ |-> Binding(gq.v + 1),
             raised |-> "returned"]
        ELSE
            \* q = 1
            [weightChange |-> r.weightChange, step |-> r.step,
             lastGradient |-> r.lastGradient, globalQ |-> Binding(1),
             raised |-> "returned"]

\* --------------------------------------------------------- DataToolbox
\* the integer an array index argument is truncated to (toward zero)
ToIntegerOrInfinity(r) ==
    IF r[1] >= 0 THEN r[1] \div r[2] ELSE -((-r[1]) \div r[2])

\* Array.prototype.slice(start, end) on a sequence, indexes counted from 0: a
\* negative index counts from the end, and both are clamped to [0, length]
Slice(seq, start, end) ==
    LET len == Len(seq)
        k == IF start < 0 THEN (IF len + start < 0 THEN 0 ELSE len + start)
             ELSE (IF start > len THEN len ELSE start)
        final == IF end < 0 THEN (IF len + end < 0 THEN 0 ELSE len + end)
                 ELSE (IF end > len THEN len ELSE end)
    IN  SubSeq(seq, k + 1, final)

\* trainTestSpit(dataset, testSize)
TrainTestSpit(ds, ts) ==
    IF RLeq(<<1, 1>>, ts) \/ RLeq(ts, Zero) THEN
        \* throw new NeuralNetworkError('Test size should be between 0 and 1')
        [outcome |-> "NeuralNetworkError", train |-> <<>>, test |-> <<>>]
    ELSE
        [outcome |-> "returned",
         \* dataset.slice(0, dataset.length * (1 - testSize))
         train |-> Slice(ds, 0, ToIntegerOrInfinity(
                                    RScale(Len(ds), RAdd(<<1, 1>>, RNeg(ts))))),
         \* dataset.slice(-dataset.length * testSize)
         test |-> Slice(ds, ToIntegerOrInfinity(RScale(-Len(ds), ts)), Len(ds))]

\* ---------------------------------------------------------------- the state
\* constructor: rpropType is RPROPp, updateValues all initialUpdate, lastDelta
\* all 0, lastError +infinity, q = 1; the arrays of the base class start at 0
Constructed(cfg) ==
    /\ rpropType = "RPROPp"
    /\ initialUpdate = cfg[1]
    /\ maxStep = cfg[2]
    /\ updateValues = [i \in Indexes |-> cfg[1]]
    /\ lastDelta = [i \in Indexes |-> Zero]
    /\ lastWeightChange = [i \in Indexes |-> Zero]
    /\ lastGradient = [i \in Indexes |-> 0]
    /\ error = 0
    /\ lastError = PositiveInfinity
    /\ q = 1
    /\ weights = [i \in Indexes |-> Zero]
    /\ calls = 0
    /\ last = NoCall
    /\ lastUpdate = [i \in Indexes |-> NoUpdate]
    /\ lastIteration = NoIteration
    /\ dropouts = NoDropout

\* a strategy constructed in an environment without a global q; no dataset is
\* being split
Init ==
    /\ \E cfg \in Configs : Constructed(cfg)
    /\ globalQ = NoBinding
    /\ dataset = <<>>
    /\ testSize = Zero
    /\ split = NoSplit

\* the caller selects the variant by assigning the rpropType field, before
\* training starts
SetRpropType(t) ==
    /\ calls = 0
    /\ lastError.inf
    /\ rpropType = "RPROPp"
    /\ t # "RPROPp"
    /\ rpropType' = t
    /\ UNCHANGED <<initialUpdate, maxStep, updateValues, lastDelta, lastWeightChange,
                   lastGradient, error, lastError, q, globalQ, weights, calls, last,
                   lastUpdate, lastIteration, dropouts>>
    /\ UNCHANGED toolboxVars

\* other code of the process creates a global q.  Only updateJacobiWeight
\* resolves the identifier, so the binding is followed for ARPROP strategies.
\* The repository creates none: this is a step of EnvSpec, not of Spec.
BindGlobalQ(n) ==
    /\ rpropType = "ARPROP"
    /\ ~globalQ.bound
    /\ globalQ' = Binding(n)
    /\ UNCHANGED <<rpropType, initialUpdate, maxStep, updateValues, lastDelta, lastWeightChange,
                   lastGradient, error, lastError, q, weights, calls, last,
                   lastUpdate, lastIteration, dropouts>>
    /\ UNCHANGED toolboxVars

\* step 1 of an iteration: the batch error of the current weights is stored
CalculateError(e) ==
    /\ error' = e
    /\ UNCHANGED <<rpropType, initialUpdate, maxStep, updateValues, lastDelta, lastWeightChange,
                   lastGradient, lastError, q, globalQ, weights, calls, last,
                   lastUpdate, lastIteration, dropouts>>
    /\ UNCHANGED toolboxVars

\* the dropout test lost: every call goes on to the variant's handler
IsDropout_Never(dropoutRate) == FALSE

\* the dropout test at the head of updateWeight
IsDropout(dropoutRate) == dropoutRate > 0

\* an array assignment that writes the value to every entry
Store_EveryEntry(array, index, value) == [j \in DOMAIN array |-> value]

\* array[index] = value
Store(array, index, value) == [array EXCEPT ![index] = value]

\* step 3 of an iteration, for one index: weight[index] += weightChange
ApplyWeightChange(w, weightChange) == RAdd(w, weightChange)

\* the effect of updateWeight(gradients, lastGradient, index, dropoutRate)
\* with gradients[index] = g on the strategy and on lastGradient
UpdateWeightCall(i, g, d) ==
    /\ calls < MaxCalls
    /\ calls' = calls + 1
    /\ LET lg == lastGradient[i]
           change == Sign(g * lg)
           call == [index |-> i, gradient |-> g, dropoutRate |-> d,
                    change |-> change, outcome |-> "returned", ret |-> Zero]
           update == [done |-> TRUE, change |-> change, weightBefore |-> weights[i]]
       IN
       IF IsDropout(d) THEN
           /\ last' = [call EXCEPT !.change = 0]
           /\ UNCHANGED <<updateValues, lastDelta, lastWeightChange, lastGradient,
                          globalQ, lastUpdate>>
       ELSE IF rpropType \in {"RPROPp", "iRPROPp"} THEN
           LET r == IF rpropType = "RPROPp"
                    THEN UpdateWeightPlus(g, lg, updateValues[i],
                                          lastWeightChange[i], maxStep)
                    ELSE UpdateiWeightPlus(g, lg, updateValues[i],
                                           lastWeightChange[i], maxStep,
                                           error, lastError)
           IN  /\ updateValues' = Store(updateValues, i, r.step)
               /\ lastGradient' = Store(lastGradient, i, r.lastGradient)
               /\ lastWeightChange' = Store(lastWeightChange, i, r.weightChange)
               /\ last' = [call EXCEPT !.ret = r.weightChange]
               /\ lastUpdate' = [lastUpdate EXCEPT ![i] = update]
               /\ UNCHANGED <<lastDelta, globalQ>>
       ELSE IF rpropType \in {"RPROPm", "iRPROPm"} THEN
           LET r == IF rpropType = "RPROPm"
                    THEN UpdateWeightMinus(g, lg, lastDelta[i], maxStep)
                    ELSE UpdateiWeightMinus(g, lg, lastDelta[i], maxStep)
           IN  /\ lastDelta' = Store(lastDelta, i, r.step)
               /\ lastGradient' = Store(lastGradient, i, r.lastGradient)
               /\ lastWeightChange' = Store(lastWeightChange, i, r.weightChange)
               /\ last' = [call EXCEPT !.ret = r.weightChange]
               /\ lastUpdate' = [lastUpdate EXCEPT ![i] = update]
               /\ UNCHANGED <<updateValues, globalQ>>
       ELSE IF rpropType = "ARPROP" THEN
           LET r == UpdateJacobiWeight(g, lg, updateValues[i], lastWeightChange[i],
                                       maxStep, error, lastError, globalQ)
           IN  /\ updateValues' = Store(updateValues, i, r.step)
               /\ lastGradient' = Store(lastGradient, i, r.lastGradient)
               /\ globalQ' = r.globalQ
               /\ last' = [call EXCEPT !.outcome = r.raised, !.ret = r.weightChange]
               /\ lastUpdate' = [lastUpdate EXCEPT ![i] = update]
               /\ IF r.raised = "returned"
                  THEN lastWeightChange' = Store(lastWeightChange, i, r.weightChange)
                  ELSE UNCHANGED lastWeightChange
               /\ UNCHANGED lastDelta
       ELSE
           \* default: throw new NeuralNetworkError("Unknown RPROP type: ...")
           /\ last' = [call EXCEPT !.change = 0, !.outcome = "NeuralNetworkError"]
           /\ UNCHANGED <<updateValues, lastDelta, lastWeightChange, lastGradient,
                          globalQ, lastUpdate>>
    /\ UNCHANGED <<rpropType, initialUpdate, maxStep, error, lastError, q, lastIteration>>
    /\ UNCHANGED toolboxVars

\* updateWeight called on the strategy; the caller does not touch the weights
UpdateWeight(i, g, d) ==
    /\ UpdateWeightCall(i, g, d)
    /\ UNCHANGED <<weights, dropouts>>

\* steps 2 and 3 of an iteration, for one index:
\* weights[index] += updateWeight(gradients, lastGradient, index, dropoutRate);
\* a call that raises leaves the weight as it was
Learn(i, g, d) ==
    /\ UpdateWeightCall(i, g, d)
    /\ weights' = IF last'.outcome = "returned"
                  THEN Store(weights, i, ApplyWeightChange(weights[i], last'.ret))
                  ELSE weights
    /\ dropouts' = IF d > 0
                   THEN [since |-> dropouts.since \cup {i}, before |-> FALSE]
                   ELSE [since |-> dropouts.since \ {i}, before |-> i \in dropouts.since]

\* postIteration with the assignment to lastError lost
PostIteration_ErrorNotStored ==
    /\ lastIteration' = [done |-> TRUE, error |-> error]
    /\ UNCHANGED <<rpropType, initialUpdate, maxStep, updateValues, lastDelta, lastWeightChange,
                   lastGradient, error, lastError, q, globalQ, weights, calls, last,
                   lastUpdate, dropouts>>
    /\ UNCHANGED toolboxVars

\* postIteration
PostIteration ==
    /\ lastError' = Finite(error)
    /\ lastIteration' = [done |-> TRUE, error |-> error]
    /\ UNCHANGED <<rpropType, initialUpdate, maxStep, updateValues, lastDelta, lastWeightChange,
                   lastGradient, error, q, globalQ, weights, calls, last, lastUpdate,
                   dropouts>>
    /\ UNCHANGED toolboxVars

Next ==
    \/ \E t \in (RPROPType \cup {UnknownType}) : SetRpropType(t)
    \/ \E e \in Errors : CalculateError(e)
    \/ \E i \in Indexes, g \in Gradients, d \in DropoutRates : UpdateWeight(i, g, d)
    \/ PostIteration

Spec == Init /\ [][Next]_vars

\* ------------------------------------- a process with code of other origin
\* an ARPROP strategy in a process whose other code may create a global q
EnvNext ==
    \/ \E t \in {"ARPROP"} : SetRpropType(t)
    \/ \E n \in {1} : BindGlobalQ(n)
    \/ \E e \in Errors : CalculateError(e)
    \/ \E i \in Indexes, g \in Gradients, d \in DropoutRates : UpdateWeight(i, g, d)
    \/ PostIteration

EnvSpec == Init /\ [][EnvNext]_vars

\* ------------------------------------------------------ the training loop
\* an RPROPp strategy (the constructed variant) driven by the training loop,
\* which adds every returned weightChange to the weight vector
LearnNext ==
    \/ \E e \in Errors : CalculateError(e)
    \/ \E i \in Indexes, g \in Gradients, d \in DropoutRates : Learn(i, g, d)
    \/ PostIteration

LearnSpec == Init /\ [][LearnNext]_vars

\* ------------------------------------------------- trainTestSpit on its own
\* datasets of up to MaxLength rows, a row standing for its position
Datasets == {[k \in 1..n |-> k] : n \in 0..MaxLength}

\* testSize arguments -0.1, 0, 0.1, ..., 1, 1.1 (0.2 is the default)
TestSizes == {Rat(k, 10) : k \in -1..11}

\* a dataset and a testSize are at hand; the strategy object plays no part
SplitInit ==
    /\ Constructed(<<DEFAULT_INITIAL_UPDATE, DEFAULT_MAX_STEP>>)
    /\ globalQ = NoBinding
    /\ dataset \in Datasets
    /\ testSize \in TestSizes
    /\ split = NoSplit

\* DataToolbox.trainTestSpit(dataset, testSize)
CallTrainTestSpit ==
    /\ split.outcome = "none"
    /\ split' = TrainTestSpit(dataset, testSize)
    /\ UNCHANGED <<dataset, testSize>>
    /\ UNCHANGED trainerVars

SplitNext == CallTrainTestSpit

SplitSpec == SplitInit /\ [][SplitNext]_vars

\* ------------------------------------------------------------ vocabulary
\* the step size that is authoritative for the variant
StepSize(i) == IF rpropType \in {"RPROPm", "iRPROPm"} THEN lastDelta[i]
               ELSE updateValues[i]

\* the same after the step (rpropType does not change in a call)
NewStepSize(i) == IF rpropType \in {"RPROPm", "iRPROPm"} THEN lastDelta'[i]
                  ELSE updateValues'[i]

InStepRange(s) == RLeq(DELTA_MIN, s) /\ RLeq(s, maxStep)

\* the latest call was not dropped out and ran one of the five handlers
Updated == /\ last.outcome # "none"
           /\ last.dropoutRate <= 0
           /\ rpropType \in RPROPType

\* this step is an updateWeight call (last' describes it)
Called == calls' = calls + 1

\* ... that was not dropped out and ran one of the five handlers
CalledUpdate == Called /\ last'.dropoutRate <= 0 /\ rpropType \in RPROPType

C2_DropoutExclusion ==
    [][ (Called /\ last'.dropoutRate > 0)
        => /\ last'.outcome = "returned"
           /\ last'.ret = Zero
           /\ UNCHANGED <<updateValues, lastDelta, lastWeightChange, lastGradient>>
      ]_vars

\* a dropped-out call on an index whose handler would have changed the state
C2_Witness ==
    /\ last.dropoutRate > 0
    /\ last.outcome = "returned"
    /\ last.ret = Zero
    /\ rpropType = "RPROPm"
    /\ lastGradient[last.index] # 0
    /\ last.gradient # 0

\* ------------------------------------------------------------------ C3
\* C3 as stated, for the calls that return: with change >= 0 the returned
\* weightChange has the sign of gradient[i]; with change < 0 it is 0 or the
\* negation of the previous weight change at i.
C3_SignRule_AsStated ==
    [][ (CalledUpdate /\ last'.outcome = "returned")
        => /\ last'.change >= 0 => RSign(last'.ret) = Sign(last'.gradient)
           /\ last'.change < 0
              => last'.ret \in {Zero, RNeg(lastWeightChange[last'.index])}
      ]_vars

\* C3 amended (initialUpdate > 0): in RPROPp, RPROPm, iRPROPp and iRPROPm a
\* call with change >= 0 returns a weightChange with the sign of gradient[i];
\* with change < 0, RPROPp returns -lastWeightChange[i], iRPROPp returns 0 or
\* -lastWeightChange[i], and RPROPm and iRPROPm return sign(gradient[i]) times
\* the shrunk step max(0.5 * lastDelta[i], DELTA_MIN), which carries the sign of
\* the current gradient.  An ARPROP call that is not dropped out returns no
\* weight change where the environment binds no global q: it raises (C10).
C3_SignRule ==
    [][ CalledUpdate
        => LET i == last'.index
               g == last'.gradient
           IN  /\ (rpropType = "ARPROP" /\ ~globalQ.bound)
                  => last'.outcome = "ReferenceError"
               /\ rpropType # "ARPROP"
                  => /\ last'.outcome = "returned"
                     /\ last'.change >= 0 => RSign(last'.ret) = Sign(g)
               /\ (rpropType = "RPROPp" /\ last'.change < 0)
                  => last'.ret = RNeg(lastWeightChange[i])
               /\ (rpropType = "iRPROPp" /\ last'.change < 0)
                  => last'.ret \in {Zero, RNeg(lastWeightChange[i])}
               /\ (rpropType \in {"RPROPm", "iRPROPm"} /\ last'.change < 0)
                  => /\ last'.ret = RScale(Sign(g), RMax(RMul(lastDelta[i], NEGATIVE_ETA),
                                                         DELTA_MIN))
                     /\ RSign(last'.ret) = Sign(g)
      ]_vars

\* an RPROPp reversal that returned the negated previous change, which has
\* the sign of the current gradient
C3_Witness ==
    /\ Updated
    /\ last.change < 0
    /\ last.outcome = "returned"
    /\ rpropType = "RPROPp"
    /\ last.ret # Zero
    /\ RSign(last.ret) = Sign(last.gradient)

\* ------------------------------------------------------------------ C4
\* C4: in every variant, a call whose gradient product has sign 0 leaves the
\* step size of index i unchanged and returns sign(gradient[i]) * step.
C4_NeutralCase ==
    [][ (CalledUpdate /\ last'.change = 0)
        => LET i == last'.index IN
           /\ NewStepSize(i) = StepSize(i)
           /\ last'.outcome = "returned"
           /\ last'.ret = RScale(Sign(last'.gradient), StepSize(i))
      ]_vars

\* ------------------------------------------------------------------ C5
\* C5: in every variant, an update with change > 0 sets the step size to
\* min(1.2 * oldStep, maxStep) and returns sign(gradient[i]) times the new
\* step; an update with change < 0 sets it to max(0.5 * oldStep, DELTA_MIN).
C5_StepTransition ==
    [][ CalledUpdate
        => LET i == last'.index IN
           /\ last'.change > 0
              => /\ NewStepSize(i) = RMin(RMul(StepSize(i), POSITIVE_ETA), maxStep)
                 /\ last'.outcome = "returned"
                 /\ last'.ret = RScale(Sign(last'.gradient), NewStepSize(i))
           /\ last'.change < 0
              => NewStepSize(i) = RMax(RMul(StepSize(i), NEGATIVE_ETA), DELTA_MIN)
      ]_vars

\* C5 without ARPROP's return value: the part of C5 the code satisfies
C5_StepTransition_ExceptJacobiReturn ==
    [][ CalledUpdate
        => LET i == last'.index IN
           /\ last'.change > 0
              => /\ NewStepSize(i) = RMin(RMul(StepSize(i), POSITIVE_ETA), maxStep)
                 /\ rpropType # "ARPROP"
                    => /\ last'.outcome = "returned"
                       /\ last'.ret = RScale(Sign(last'.gradient), NewStepSize(i))
           /\ last'.change < 0
              => NewStepSize(i) = RMax(RMul(StepSize(i), NEGATIVE_ETA), DELTA_MIN)
      ]_vars

\* ------------------------------------------------------------------ C6
\* C6: an RPROPp update of index i whose gradient has the opposite sign of
\* lastGradient[i] returns -lastWeightChange[i], sets the step to
\* max(0.5 * oldStep, DELTA_MIN) (0.12 becomes 0.06) and sets
\* lastGradient[i] to 0.
C6_Backtracking ==
    [][ (CalledUpdate /\ rpropType = "RPROPp" /\ last'.change < 0)
        => LET i == last'.index IN
           /\ last'.outcome = "returned"
           /\ last'.ret = RNeg(lastWeightChange[i])
           /\ updateValues'[i] = RMax(RMul(updateValues[i], <<1, 2>>), DELTA_MIN)
           /\ updateValues[i] = <<3, 25>> => updateValues'[i] = <<3, 50>>
           /\ lastGradient'[i] = 0
           /\ lastWeightChange'[i] = last'.ret
      ]_vars

\* the third iteration of the scenario: step 0.12 halved to 0.06, the change of
\* +0.12 undone
C6_Witness ==
    /\ Updated
    /\ rpropType = "RPROPp"
    /\ last.change < 0
    /\ last.gradient = -1
    /\ last.ret = <<-3, 25>>
    /\ updateValues[last.index] = <<3, 50>>
    /\ lastGradient[last.index] = 0

\* ------------------------------------------------------------------ C7
\* the scenario's strategy: RPROPp constructed with initialUpdate = 0.1 and
\* the default maxStep
ScenarioStrategy ==
    /\ rpropType = "RPROPp"
    /\ initialUpdate = <<1, 10>>
    /\ maxStep = DEFAULT_MAX_STEP

\* the first updateWeight call of the strategy, with gradient 1.0, not dropped
FirstCallGradientOne ==
    /\ calls = 1
    /\ last.gradient = 1
    /\ last.dropoutRate <= 0

\* C7 as stated: the first iteration's weight change is -0.1.
C7_Scenario_AsStated ==
    (ScenarioStrategy /\ FirstCallGradientOne) => last.ret = <<-1, 10>>

\* C7 amended: the first iteration's weight change is +0.1 (the step carries
\* the sign of the gradient as passed) with the step still 0.1, and the second
\* iteration with gradient 1.0 on the same weight grows the step to 0.12 and
\* returns +0.12.
C7_Scenario ==
    [][ /\ (ScenarioStrategy /\ FirstCallGradientOne')
           => /\ last'.ret = <<1, 10>>
              /\ updateValues'[last'.index] = <<1, 10>>
        /\ (ScenarioStrategy /\ FirstCallGradientOne /\ Called
            /\ last'.index = last.index /\ last'.gradient = 1
            /\ last'.dropoutRate <= 0)
           => /\ last'.ret = <<3, 25>>
              /\ updateValues'[last'.index] = <<3, 25>>
      ]_vars

\* after the second iteration of the scenario
C7_Witness ==
    /\ ScenarioStrategy
    /\ calls = 2
    /\ last.gradient = 1
    /\ last.change > 0
    /\ last.ret = <<3, 25>>
    /\ updateValues[last.index] = <<3, 25>>

\* ------------------------------------------------------------------ C8
\* C8: on a sign reversal at index i, iRPROPp returns -lastWeightChange[i] if
\* and only if error > lastError, and 0 otherwise; in both cases the step is
\* halved (down to the floor DELTA_MIN) and lastGradient[i] becomes 0.
C8_ConditionalBacktracking ==
    [][ (CalledUpdate /\ rpropType = "iRPROPp" /\ last'.change < 0)
        => LET i == last'.index IN
           /\ last'.outcome = "returned"
           /\ (last'.ret = RNeg(lastWeightChange[i]))
              <=> (~lastError.inf /\ error > lastError.v)
           /\ (lastError.inf \/ error <= lastError.v) => last'.ret = Zero
           /\ updateValues'[i] = RMax(RMul(updateValues[i], <<1, 2>>), DELTA_MIN)
           /\ lastGradient'[i] = 0
      ]_vars

\* an iRPROPp reversal under a risen error that undid the previous change
C8_Witness ==
    /\ Updated
    /\ rpropType = "iRPROPp"
    /\ last.change < 0
    /\ last.ret # Zero
    /\ ~lastError.inf
    /\ error > lastError.v
    /\ lastGradient[last.index] = 0

\* an iRPROPp reversal under an error that did not rise: no undo
C8_WitnessAccept ==
    /\ Updated
    /\ rpropType = "iRPROPp"
    /\ last.change < 0
    /\ last.ret = Zero
    /\ ~lastError.inf
    /\ error <= lastError.v

\* ------------------------------------------------------------------ C9
\* C9: after an iRPROPm update of index i in which the gradient reversed sign,
\* lastGradient[i] is 0 when updateWeight returns.
C9_ResetOnReversal ==
    (Updated /\ rpropType = "iRPROPm" /\ last.change < 0)
    => lastGradient[last.index] = 0

\* ------------------------------------------------------------------ C10
\* C10: every ARPROP updateWeight call completes without raising.
C10_JacobiCompletes ==
    (rpropType = "ARPROP" /\ last.outcome # "none") => last.outcome = "returned"

\* C10: q is state of the strategy instance: an ARPROP update under
\* error > lastError increments this.q, any other ARPROP update sets it to 1.
C10_JacobiCounter ==
    [][ (CalledUpdate /\ rpropType = "ARPROP")
        => q' = IF ErrorExceeds(error, lastError) THEN q + 1 ELSE 1
      ]_vars

\* ------------------------------------------------------------------ C11
\* C11: with a variant tag outside the five RPROP tags, every updateWeight
\* call, whatever its index and its dropoutRate, raises NeuralNetworkError,
\* returns no weight change, and leaves lastWeightChange, updateValues,
\* lastDelta and lastGradient unchanged.
C11_UnknownVariantRaises ==
    [][ (Called /\ rpropType \notin RPROPType)
        => /\ last'.outcome = "NeuralNetworkError"
           /\ UNCHANGED <<lastWeightChange, updateValues, lastDelta, lastGradient>>
      ]_vars

\* C11 without the dropped-out calls: what the code does for an unknown tag.
\* A call with dropoutRate <= 0 raises NeuralNetworkError, a call with
\* dropoutRate > 0 returns 0, and both leave the four arrays unchanged.
C11_UnknownVariantRaisesUnlessDropout ==
    [][ (Called /\ rpropType \notin RPROPType)
        => /\ last'.dropoutRate <= 0 => last'.outcome = "NeuralNetworkError"
           /\ last'.dropoutRate > 0
              => (last'.outcome = "returned" /\ last'.ret = Zero)
           /\ UNCHANGED <<lastWeightChange, updateValues, lastDelta, lastGradient>>
      ]_vars

\* ------------------------------------------------------------------ C12
\* C12: no constructed strategy ever holds a variant tag outside
\* {RPROPp, RPROPm, iRPROPp, iRPROPm, ARPROP}.
C12_NoUnrecognizedTag ==
    rpropType \in RPROPType

\* C12, the part about the default: until a caller assigns the field, the
\* constructed strategy uses RPROPp.
C12_ConstructedAsRPROPp ==
    [][ rpropType' # rpropType => rpropType = "RPROPp" ]_vars

\* ------------------------------------------------------------------ C13
\* C13: lastError is +infinity exactly while no iteration has completed; once
\* one has, lastError is the error of the latest completed iteration (so the
\* updateWeight calls of iteration k >= 2 see the error of iteration k-1), and
\* lastError never becomes +infinity again.
C13_LastErrorProtocol ==
    /\ [](/\ lastError.inf <=> ~lastIteration.done
          /\ lastIteration.done => lastError = Finite(lastIteration.error))
    /\ [][ ~lastError.inf => ~lastError'.inf ]_vars

\* an iRPROPp call of a later iteration backtracked: it found the error of its
\* iteration (1) above lastError, the error of the iteration before (0)
C13_Witness ==
    /\ Updated
    /\ rpropType = "iRPROPp"
    /\ last.change < 0
    /\ last.ret # Zero
    /\ lastIteration.done
    /\ lastIteration.error = 0
    /\ lastError = Finite(0)
    /\ error = 1

\* ------------------------------------------------------------------ C14
\* the outcome of an ARPROP updateWeight call for index i with gradients[i] = g
\* that is not dropped out, made on the strategy as it stands in an environment
\* where the identifier q resolves to gq
JacobiOutcome(i, g, gq) ==
    LET r == UpdateJacobiWeight(g, lastGradient[i], updateValues[i],
                                lastWeightChange[i], maxStep, error, lastError, gq)
    IN  [outcome |-> r.raised, weightChange |-> r.weightChange, step |-> r.step,
         lastGradient |-> r.lastGradient]

\* C14: two updateWeight calls started from the same strategy state
\* (updateValues, lastDelta, lastWeightChange, error, lastError, q, variant)
\* with the same gradient, lastGradient, index and dropoutRate have the same
\* outcome, whatever lies outside the strategy instance.  Updates of the other
\* four variants read nothing but their arguments and the instance; the ARPROP
\* update resolves q outside it.
C14_Determinism ==
    rpropType = "ARPROP"
    => \A i \in Indexes, g \in Gradients, e1 \in GlobalBindings, e2 \in GlobalBindings :
           JacobiOutcome(i, g, e1) = JacobiOutcome(i, g, e2)

\* ------------------------------------------------------------------ C15
\* C15: in RPROPp, iRPROPp and ARPROP, the update of index i that follows a
\* sign-reversal update of i (dropped-out calls and calls for other indexes
\* between them set aside) takes the change == 0 branch whatever its gradient:
\* the step size stays, a returned weightChange is sign(gradient[i]) * step, and
\* so no index backtracks or shrinks its step in two consecutive updates.
C15_NeutralAfterReversal ==
    [][ ( /\ CalledUpdate
          /\ rpropType \in {"RPROPp", "iRPROPp", "ARPROP"}
          /\ lastUpdate[last'.index].done
          /\ lastUpdate[last'.index].change < 0 )
        => LET i == last'.index IN
           /\ lastGradient[i] = 0
           /\ last'.change = 0
           /\ updateValues'[i] = updateValues[i]
           /\ last'.outcome = "returned"
              => last'.ret = RScale(Sign(last'.gradient), updateValues[i])
           /\ lastUpdate'[i].change = 0
      ]_vars

\* the default strategy after three calls: the step of 0.1 was halved by a
\* reversal in the second, and the third, with a gradient that is not 0, kept
\* 0.05 and stepped by it
C15_Witness ==
    /\ Updated
    /\ rpropType = "RPROPp"
    /\ initialUpdate = DEFAULT_INITIAL_UPDATE
    /\ maxStep = DEFAULT_MAX_STEP
    /\ calls = 3
    /\ last.change = 0
    /\ last.gradient = -1
    /\ updateValues[last.index] = <<1, 20>>
    /\ last.ret = <<-1, 20>>

C17_PerIndexFrame ==
    /\ [](/\ DOMAIN updateValues = Indexes
          /\ DOMAIN lastDelta = Indexes
          /\ DOMAIN lastWeightChange = Indexes
          /\ DOMAIN lastGradient = Indexes
          /\ DOMAIN weights = Indexes)
    /\ [][ Called
           => \A j \in Indexes \ {last'.index} :
                  /\ updateValues'[j] = updateValues[j]
                  /\ lastDelta'[j] = lastDelta[j]
                  /\ lastWeightChange'[j] = lastWeightChange[j]
                  /\ lastGradient'[j] = lastGradient[j]
         ]_vars

\* an update wrote the entries of its index while another index keeps the
\* entries an earlier update gave it
C17_Witness ==
    /\ Updated
    /\ rpropType = "RPROPp"
    /\ last.change > 0
    /\ \E j \in Indexes \ {last.index} :
           /\ lastGradient[j] = -last.gradient
           /\ updateValues[j] = initialUpdate
           /\ lastWeightChange[j] = RNeg(RScale(last.gradient, initialUpdate))
           /\ updateValues[last.index] # updateValues[j]

\* ------------------------------------------------------------------ C18
IsPrefix(s, t) == Len(s) <= Len(t) /\ s = SubSeq(t, 1, Len(s))

IsSuffix(s, t) == Len(s) <= Len(t) /\ s = SubSeq(t, Len(t) - Len(s) + 1, Len(t))

\* 0 < testSize < 1
ValidTestSize == ~RLeq(testSize, Zero) /\ ~RLeq(<<1, 1>>, testSize)

\* C18: for a dataset of length n >= 1 and 0 < testSize < 1, train is a prefix
\* and test a suffix of the dataset with train.length + test.length <= n; for
\* testSize <= 0 or testSize >= 1 the call raises NeuralNetworkError.
C18_TrainTestSplit ==
    split.outcome # "none"
    => /\ (ValidTestSize /\ Len(dataset) >= 1)
          => /\ split.outcome = "returned"
             /\ IsPrefix(split.train, dataset)
             /\ IsSuffix(split.test, dataset)
             /\ Len(split.train) + Len(split.test) <= Len(dataset)
       /\ ~ValidTestSize => split.outcome = "NeuralNetworkError"

\* C18 where the test share is at least one row (n * testSize >= 1): the part
\* of C18 the code satisfies, with test the last floor(n * testSize) rows
C18_TrainTestSplit_TestRowExists ==
    split.outcome # "none"
    => /\ (ValidTestSize /\ RLeq(<<1, 1>>, RScale(Len(dataset), testSize)))
          => /\ split.outcome = "returned"
             /\ IsPrefix(split.train, dataset)
             /\ IsSuffix(split.test, dataset)
             /\ Len(split.test) = ToIntegerOrInfinity(RScale(Len(dataset), testSize))
             /\ Len(split.train) + Len(split.test) <= Len(dataset)
       /\ ~ValidTestSize => split.outcome = "NeuralNetworkError"
====
